---- MODULE Spec2Model ----
(***************************************************************************)
(* State-machine model of the DMX512 scripts of this repository:           *)
(*   working_dmx.py  class WorkingDMXController (open,                     *)
(*                   send_dmx_frame_simple, test_pattern)                  *)
(*   dmx_test.py     test_basic_port_access, test_dmx_basic_output,        *)
(*                   test_pattern_output and the main sequence             *)
(* Python indices are kept: a frame is a function on 0..FrameLen-1; a      *)
(* Python list is a TLA+ sequence, so list[i] is seq[i+1].                 *)
(***************************************************************************)
EXTENDS Integers, Sequences, FiniteSets, TLC

\* ---------------------------------------------------------------- constants
FrameLen == 513
MaxChannels == 512
ByteMask == 255
PatternFrames == 10
NumPorts == 2
TestFrames == 5
NumPatterns == 5

\* ------------------------------------------------------------------- bounds
\* how far beyond 0..255 (on both sides) the channel values go
MaxOver == 1
\* how many elements beyond the 512th a channel list may have
MaxExtra == 1
\* a client calls send_dmx_frame_simple itself only while frame_count is below
MaxSends == 2
\* cap on frame_count (a Python int, unbounded in the code)
MaxFrames == 11

VARIABLES
    prog,          \* which program runs: a client of the class, or dmx_test.py
    dmx_port,      \* self.dmx_port: "None" or "Serial" (an open handle)
    frame_count,   \* self.frame_count
    arg,           \* the channel list as passed to the latest send call
    channels,      \* the caller's channel list after that call returned
    call,          \* the latest completed controller call and what it returned
    port_calls,    \* what the latest controller call did to the serial port
    tp_pc,         \* position inside test_pattern
    tp_i,          \* test_pattern's loop index i
    tp_sent,       \* sends of the current test_pattern run that returned True
    tp_tried,      \* cycles (1-based) of the current run whose write was tried
    tp_failed,     \* cycles (1-based) of the current run whose write failed
    reported,      \* the count test_pattern printed at its end, <<>> before
    true_returns,  \* send_dmx_frame_simple calls that returned True so far
    s_pc,          \* dmx_test.py: position in main's sequence of tests
    s_i,           \* dmx_test.py: index of the loop the script is in
    success_count, \* dmx_test.py: test_basic_port_access's success_count
    ser,           \* dmx_test.py: the test's local port handle (ser, dmx_port)
    s_frame,       \* dmx_test.py: the frame the test last built, <<>> before
    script_calls,  \* dmx_test.py: what the current test did to its port so far
    s_ret          \* dmx_test.py: what the latest finished test returned

ctlvars == <<dmx_port, frame_count, arg, channels, call, port_calls, true_returns>>
tpvars == <<tp_pc, tp_i, tp_sent, tp_tried, tp_failed, reported>>
svars == <<s_pc, s_i, success_count, ser, s_frame, script_calls, s_ret>>
vars == <<prog, ctlvars, tpvars, svars>>

\* ------------------------------------------------------------ pure helpers
Min(a, b) == IF a < b THEN a ELSE b

\* Python's a & b for b >= 0 on unbounded two's-complement integers, bit by
\* bit from the lowest; \div and % round down, so a negative a keeps an
\* endless run of one bits and the recursion ends when b runs out.
RECURSIVE BitAnd(_, _)
BitAnd(a, b) ==
    IF a = 0 \/ b = 0 THEN 0
    ELSE (a % 2) * (b % 2) + 2 * BitAnd(a \div 2, b \div 2)

\* a mask that loses the top bit: & 0x7F
AndFFSeven(v) == BitAnd(v, ByteMask \div 2)

\* line 47: int(value) & 0xFF, for an integer value
AndFF(v) == BitAnd(v, ByteMask)

\* bytearray(n): n zero bytes, indexed from 0
Bytearray(n) == [k \in 0 .. n - 1 |-> 0]

\* line 46: channels[:512]
Slice(vals) == SubSeq(vals, 1, Min(Len(vals), MaxChannels))

\* for i, value in enumerate(sl): frame[i + 1] = int(value) & 0xFF
CopyChannels(frame, sl) ==
    [k \in DOMAIN frame |-> IF k >= 1 /\ k <= Len(sl) THEN AndFF(sl[k]) ELSE frame[k]]

\* frame[0] = 0x00
SetStartCode(frame) == [frame EXCEPT ![0] = 0]

\* lines 42-47: the frame built from the values of a channel list
BuildFrame(vals) == CopyChannels(SetStartCode(Bytearray(FrameLen)), Slice(vals))

\* A channel list is [vals, bad]: its elements, and the (1-based) position of
\* its first element on which int() raises, 0 when all are integers.  The
\* loop raises iff such an element is inside the slice.
ConversionRaises(ch) == ch.bad >= 1 /\ ch.bad <= Len(Slice(ch.vals))

\* the caller's list after the call: the loop reads a sliced copy and never
\* assigns to channels
ListAfterSend(ch) == ch

\* ------------------------------------------------------------------ inputs
Values == {0, 128, ByteMask} \cup (ByteMask + 1 .. ByteMask + MaxOver) \cup (0 - MaxOver .. -1)

Fill(v, n) == [k \in 1 .. n |-> v]

ShortLists == {<<>>} \cup {<<v>> : v \in Values} \cup {<<v, 128>> : v \in Values}

LongLengths == (MaxChannels - 1) .. (MaxChannels + MaxExtra)

\* v, 128, zeros up to the 511th element, then t from the 512th on; and the
\* all-zero list of exactly 512
LongLists ==
    {Fill(0, MaxChannels)} \cup
    { <<v, 128>> \o Fill(0, MaxChannels - 3) \o Fill(t, n - (MaxChannels - 1)) :
        v \in {ByteMask, ByteMask + MaxOver}, t \in {0, ByteMask}, n \in LongLengths }

\* lists holding an element int() raises on: the first or the last one
BadLists ==
    UNION { { [vals |-> Fill(0, n), bad |-> b] : b \in {1, n} } : n \in {1} \cup LongLengths }

ChannelLists ==
    { [vals |-> s, bad |-> 0] : s \in ShortLists \cup LongLists } \cup
    { c \in BadLists : c.bad <= Len(c.vals) }

\* channels = [255, 128, 64, 32, 16, 8, 4, 2] + [0] * 504
PatternChannels == [vals |-> <<255, 128, 64, 32, 16, 8, 4, 2>> \o Fill(0, 504), bad |-> 0]

WriteOutcomes == {"ok", "timeout", "error"}

NoData == <<>>

\* ------------------------------------------------------ controller: pieces
\* a send that also flushes after the write
SendPortCallsFlush(ch, w) ==
    <<[op |-> "write", data |-> BuildFrame(ch.vals), outcome |-> w],
      [op |-> "flush", data |-> NoData, outcome |-> "ok"]>>

\* what send_dmx_frame_simple does to the port (line 50: write, nothing else)
SendPortCalls(ch, w) == <<[op |-> "write", data |-> BuildFrame(ch.vals), outcome |-> w]>>

\* what open does to the port (lines 20-28: the Serial constructor)
OpenPortCalls(ok) == <<[op |-> "Serial", data |-> NoData, outcome |-> IF ok THEN "ok" ELSE "error"]>>

\* line 37: if not self.dmx_port
PortMissing(port) == port = "None"

\* an open that stores a handle before knowing the constructor succeeded
PortAfterOpenAlways(port, ok) == "Serial"

\* lines 20 and 31-33: the handle after open
PortAfterOpen(port, ok) == IF ok THEN "Serial" ELSE port

\* a send that forgets to count
CountAfterWriteNone(n) == n

\* line 51: self.frame_count += 1
CountAfterWrite(n) == n + 1

\* send_dmx_frame_simple as a relation on the controller's state
SendBody(ch, w) ==
    /\ arg' = ch
    /\ channels' = ListAfterSend(ch)
    /\ dmx_port' = dmx_port
    /\ IF PortMissing(dmx_port) \/ ConversionRaises(ch)
       THEN /\ port_calls' = <<>>
            /\ frame_count' = frame_count
            /\ call' = [op |-> "send", ret |-> "False"]
       ELSE /\ port_calls' = SendPortCalls(ch, w)
            /\ IF w = "ok"
               THEN /\ frame_count' = CountAfterWrite(frame_count)
                    /\ call' = [op |-> "send", ret |-> "True"]
               ELSE /\ frame_count' = frame_count
                    /\ call' = [op |-> "send", ret |-> "False"]
    /\ true_returns' = IF call'.ret = "True" THEN true_returns + 1 ELSE true_returns

\* open as a relation on the controller's state
OpenBody(ok) ==
    /\ dmx_port' = PortAfterOpen(dmx_port, ok)
    /\ port_calls' = OpenPortCalls(ok)
    /\ call' = [op |-> "open", ret |-> IF ok THEN "True" ELSE "False"]
    /\ UNCHANGED <<frame_count, arg, channels, true_returns>>

\* -------------------------------------------------------------------- Init
Init ==
    /\ prog \in {"client", "dmx_test"}
    /\ dmx_port = "None"
    /\ frame_count = 0
    /\ arg = [vals |-> <<>>, bad |-> 0]
    /\ channels = [vals |-> <<>>, bad |-> 0]
    /\ call = [op |-> "__init__", ret |-> "None"]
    /\ port_calls = <<>>
    /\ true_returns = 0
    /\ tp_pc = "idle"
    /\ tp_i = 0
    /\ tp_sent = 0
    /\ tp_tried = {}
    /\ tp_failed = {}
    /\ reported = <<>>
    /\ s_pc = "basic"
    /\ s_i = 0
    /\ success_count = 0
    /\ ser = "None"
    /\ s_frame = <<>>
    /\ script_calls = <<>>
    /\ s_ret = [fn |-> "none", ret |-> "None"]

\* ----------------------------------------------------- controller: actions
\* a client calls open()
Open ==
    /\ prog = "client" /\ tp_pc = "idle"
    /\ \E ok \in BOOLEAN : OpenBody(ok)
    /\ UNCHANGED <<prog, tpvars, svars>>

\* a client calls send_dmx_frame_simple(channels)
Send ==
    /\ prog = "client" /\ tp_pc = "idle"
    /\ frame_count < MaxSends
    /\ \E ch \in ChannelLists, w \in WriteOutcomes : SendBody(ch, w)
    /\ UNCHANGED <<prog, tpvars, svars>>

\* a client calls test_pattern(): line 60, the call of self.open()
TPOpen ==
    /\ prog = "client" /\ tp_pc = "idle"
    /\ \E ok \in BOOLEAN : OpenBody(ok)
    /\ tp_pc' = "opened"
    /\ tp_i' = 0 /\ tp_sent' = 0 /\ tp_tried' = {} /\ tp_failed' = {} /\ reported' = <<>>
    /\ UNCHANGED <<prog, svars>>

\* lines 60-61: if not self.open(): return False
TPCheck ==
    /\ tp_pc = "opened"
    /\ IF call.ret = "False"
       THEN /\ call' = [op |-> "test_pattern", ret |-> "False"]
            /\ port_calls' = <<>>
            /\ tp_pc' = "idle"
       ELSE /\ tp_pc' = "loop"
            /\ UNCHANGED <<call, port_calls>>
    /\ UNCHANGED <<prog, dmx_port, frame_count, arg, channels, true_returns,
                   tp_i, tp_sent, tp_tried, tp_failed, reported, svars>>

\* lines 69-75: one iteration of the loop; a failed send breaks out of it
BreaksOnFailure(ret) == ret = "False"

TPIter ==
    /\ tp_pc = "loop" /\ tp_i < PatternFrames
    /\ frame_count < MaxFrames
    /\ \E w \in WriteOutcomes : SendBody(PatternChannels, w)
    /\ tp_tried' = IF port_calls' # <<>> THEN tp_tried \cup {tp_i + 1} ELSE tp_tried
    /\ tp_failed' = IF call'.ret = "False" THEN tp_failed \cup {tp_i + 1} ELSE tp_failed
    /\ tp_sent' = IF call'.ret = "True" THEN tp_sent + 1 ELSE tp_sent
    /\ IF BreaksOnFailure(call'.ret)
       THEN tp_pc' = "finish" /\ tp_i' = tp_i
       ELSE tp_pc' = "loop" /\ tp_i' = tp_i + 1
    /\ UNCHANGED <<prog, reported, svars>>

\* line 77: the count that is printed
ReportedCount(n) == n

\* lines 77-80: print the count, return True (no close)
TPFinish ==
    /\ tp_pc = "finish" \/ (tp_pc = "loop" /\ tp_i = PatternFrames)
    /\ reported' = <<ReportedCount(frame_count)>>
    /\ call' = [op |-> "test_pattern", ret |-> "True"]
    /\ port_calls' = <<>>
    /\ tp_pc' = "idle"
    /\ UNCHANGED <<prog, dmx_port, frame_count, arg, channels, true_returns,
                   tp_i, tp_sent, tp_tried, tp_failed, svars>>

\* lines 82-84: Ctrl-C while the loop sleeps; test_pattern returns False
TPInterrupt ==
    /\ tp_pc = "loop"
    /\ call' = [op |-> "test_pattern", ret |-> "False"]
    /\ port_calls' = <<>>
    /\ tp_pc' = "idle"
    /\ UNCHANGED <<prog, dmx_port, frame_count, arg, channels, true_returns,
                   tp_i, tp_sent, tp_tried, tp_failed, reported, svars>>

\* ------------------------------------------------------ dmx_test.py: pieces
\* test_frame of test_dmx_basic_output (lines 64-75)
TestFrame ==
    [Bytearray(FrameLen) EXCEPT ![0] = 0, ![1] = 255, ![2] = 128, ![3] = 64, ![4] = 32,
                                ![5] = 255, ![6] = 0, ![7] = 255, ![8] = 0]

\* patterns of test_pattern_output (lines 110-116)
Patterns == << <<255, 0, 0, 0>>, <<0, 255, 0, 0>>, <<0, 0, 255, 0>>,
               <<255, 255, 255, 0>>, <<0, 0, 0, 0>> >>

\* lines 119-124: the frame of pattern number i (0-based)
PatternFrame(i) ==
    [k \in 0 .. FrameLen - 1 |->
        IF k >= 1 /\ k <= Len(Patterns[i + 1]) THEN Patterns[i + 1][k] ELSE 0]

\* the port calls of one frame of either loop: write, then flush if the
\* write returned (lines 82-83 and 126-127)
FrameCalls(w) == IF w = "ok" THEN <<"write", "flush">> ELSE <<"write">>

\* --------------------------------------------------- dmx_test.py: actions
\* test_basic_port_access, lines 18-33: one port of the loop
BasicPort ==
    /\ prog = "dmx_test" /\ s_pc = "basic" /\ s_i < NumPorts
    /\ \E ok \in BOOLEAN :
        /\ script_calls' = script_calls \o (IF ok THEN <<"Serial", "del">> ELSE <<"Serial">>)
        /\ success_count' = IF ok THEN success_count + 1 ELSE success_count
    /\ s_i' = s_i + 1
    /\ UNCHANGED <<prog, ctlvars, tpvars, s_pc, ser, s_frame, s_ret>>

\* test_basic_port_access, lines 35-40, and main, lines 182-189
BasicReturn ==
    /\ prog = "dmx_test" /\ s_pc = "basic" /\ s_i = NumPorts
    /\ s_ret' = [fn |-> "test_basic_port_access",
                 ret |-> IF success_count = NumPorts THEN "True" ELSE "False"]
    /\ s_pc' = IF success_count = NumPorts THEN "dmx_open" ELSE "exit"
    /\ s_i' = 0
    /\ script_calls' = <<>>
    /\ UNCHANGED <<prog, ctlvars, tpvars, success_count, ser, s_frame>>

\* test_dmx_basic_output, lines 46-75 and 97-99: open the port, build the frame
DmxOpen ==
    /\ prog = "dmx_test" /\ s_pc = "dmx_open"
    /\ \E ok \in BOOLEAN :
        IF ok
        THEN /\ ser' = "Serial"
             /\ s_frame' = TestFrame
             /\ s_pc' = "dmx_loop"
             /\ UNCHANGED s_ret
        ELSE /\ s_ret' = [fn |-> "test_dmx_basic_output", ret |-> "False"]
             /\ s_pc' = "exit"
             /\ UNCHANGED <<ser, s_frame>>
    /\ script_calls' = <<"Serial">>
    /\ s_i' = 0
    /\ UNCHANGED <<prog, ctlvars, tpvars, success_count>>

\* test_dmx_basic_output, lines 80-89: one frame; an exception breaks the loop
DmxFrame ==
    /\ prog = "dmx_test" /\ s_pc = "dmx_loop" /\ s_i < TestFrames
    /\ \E w \in WriteOutcomes, f \in {"ok", "error"} :
        /\ script_calls' = script_calls \o FrameCalls(w)
        /\ IF w = "ok" /\ f = "ok"
           THEN s_i' = s_i + 1 /\ s_pc' = s_pc
           ELSE s_i' = s_i /\ s_pc' = "dmx_end"
    /\ UNCHANGED <<prog, ctlvars, tpvars, success_count, ser, s_frame, s_ret>>

\* test_dmx_basic_output, lines 91-95: drop the handle, return True
DmxEnd ==
    /\ prog = "dmx_test"
    /\ s_pc = "dmx_end" \/ (s_pc = "dmx_loop" /\ s_i = TestFrames)
    /\ script_calls' = script_calls \o <<"del">>
    /\ ser' = "None"
    /\ s_ret' = [fn |-> "test_dmx_basic_output", ret |-> "True"]
    /\ s_pc' = "ask"
    /\ UNCHANGED <<prog, ctlvars, tpvars, s_i, success_count, s_frame>>

\* main, lines 196-203: the prompt for the pattern test
Ask ==
    /\ prog = "dmx_test" /\ s_pc = "ask"
    /\ \E yes \in BOOLEAN : s_pc' = IF yes THEN "pat_open" ELSE "exit"
    /\ UNCHANGED <<prog, ctlvars, tpvars, s_i, success_count, ser, s_frame,
                   script_calls, s_ret>>

\* test_pattern_output, lines 105-107 and 137-139: open the port
PatOpen ==
    /\ prog = "dmx_test" /\ s_pc = "pat_open"
    /\ \E ok \in BOOLEAN :
        IF ok
        THEN /\ ser' = "Serial"
             /\ s_pc' = "pat_loop"
             /\ UNCHANGED s_ret
        ELSE /\ s_ret' = [fn |-> "test_pattern_output", ret |-> "False"]
             /\ s_pc' = "exit"
             /\ UNCHANGED ser
    /\ script_calls' = <<"Serial">>
    /\ s_i' = 0
    /\ UNCHANGED <<prog, ctlvars, tpvars, success_count, s_frame>>

\* test_pattern_output, lines 118-131: one pattern; an exception leaves the
\* function through lines 137-139 (the handle goes with the frame of the call)
PatFrame ==
    /\ prog = "dmx_test" /\ s_pc = "pat_loop" /\ s_i < NumPatterns
    /\ s_frame' = PatternFrame(s_i)
    /\ \E w \in {"ok", "error"}, f \in {"ok", "error"} :
        /\ script_calls' = script_calls \o FrameCalls(w)
        /\ IF w = "ok" /\ f = "ok"
           THEN /\ s_i' = s_i + 1
                /\ UNCHANGED <<s_pc, ser, s_ret>>
           ELSE /\ s_i' = s_i
                /\ s_pc' = "exit"
                /\ ser' = "None"
                /\ s_ret' = [fn |-> "test_pattern_output", ret |-> "False"]
    /\ UNCHANGED <<prog, ctlvars, tpvars, success_count>>

\* test_pattern_output, lines 133-135: drop the handle, return True
PatEnd ==
    /\ prog = "dmx_test" /\ s_pc = "pat_loop" /\ s_i = NumPatterns
    /\ script_calls' = script_calls \o <<"del">>
    /\ ser' = "None"
    /\ s_ret' = [fn |-> "test_pattern_output", ret |-> "True"]
    /\ s_pc' = "exit"
    /\ UNCHANGED <<prog, ctlvars, tpvars, s_i, success_count, s_frame>>

\* ------------------------------------------------------------ specification
Next ==
    \/ Open \/ Send \/ TPOpen \/ TPCheck \/ TPIter \/ TPFinish \/ TPInterrupt
    \/ BasicPort \/ BasicReturn \/ DmxOpen \/ DmxFrame \/ DmxEnd \/ Ask
    \/ PatOpen \/ PatFrame \/ PatEnd

Spec == Init /\ [][Next]_vars

\* ------------------------------------------------------------------ claims
\* the latest controller call was a send that handed a frame to write
Wrote == call.op = "send" /\ port_calls # <<>>

\* the frame that send handed to write
Written == port_calls[1].data

InByteRange(v) == v >= 0 /\ v <= 255

AllInts(ch) == ch.bad = 0

\* C1: for a channel list of exactly 512 values, each in 0..255, the frame
\* handed to write has the 513 indices 0..512, byte 0 is 0x00 and byte i is
\* the value of channel i for every i in 1..512.
C1_FrameOfValidChannels ==
    (/\ Wrote
     /\ AllInts(arg)
     /\ Len(arg.vals) = 512
     /\ \A i \in 1 .. 512 : InByteRange(arg.vals[i]))
    => (/\ DOMAIN Written = 0 .. 512
        /\ Written[0] = 0
        /\ \A i \in 1 .. 512 : Written[i] = arg.vals[i])

\* C1 witness: the list 255, 128, 0, ..., 0 of 512 values was sent
C1_Witness ==
    /\ Wrote
    /\ AllInts(arg)
    /\ Len(arg.vals) = 512
    /\ arg.vals[1] = 255 /\ arg.vals[2] = 128
    /\ \A i \in 3 .. 512 : arg.vals[i] = 0
    /\ Written[1] = 255 /\ Written[2] = 128

\* a list of integers with a value outside 0..255
HasOutOfRange(ch) ==
    AllInts(ch) /\ \E i \in 1 .. Len(ch.vals) : ~InByteRange(ch.vals[i])

\* C2: a send whose channel list holds a value outside 0..255 fails and
\* changes nothing: it returns False, hands no frame to write and leaves
\* frame_count as it was.
C2_OutOfRangeRejected ==
    [][(call'.op = "send" /\ HasOutOfRange(arg'))
         => (/\ call'.ret = "False"
             /\ port_calls' = <<>>
             /\ frame_count' = frame_count)]_vars

\* C3: once a test_pattern run has ended, every cycle k whose write failed
\* and that is not the last cycle was followed by a write attempt of cycle
\* k + 1.
C3_StreamContinues ==
    (tp_pc = "idle" /\ call.op = "test_pattern")
    => \A k \in tp_failed : k < PatternFrames => (k + 1) \in tp_tried

\* C4: within one cycle (one send call) every write of a frame to the port is
\* preceded by a break-generation step.
C4_BreakBeforeWrite ==
    \A i \in DOMAIN port_calls :
        port_calls[i].op = "write" => \E j \in 1 .. i - 1 : port_calls[j].op = "break"

\* C5: whatever the controller is asked to do, the only things it does to the
\* serial port are constructing (opening) it and writing: no flush, no
\* close, no change of baud rate.
C5_OnlyOpenAndWrite ==
    \A i \in DOMAIN port_calls : port_calls[i].op \in {"Serial", "write"}

\* C5 witness: the tenth frame of a test_pattern run was written to the port
C5_Witness ==
    /\ Wrote
    /\ tp_pc = "loop" /\ tp_i = PatternFrames
    /\ port_calls[1].op = "write"

\* C6 as claimed: after an open that failed, no transport handle is held.
C6_FailedOpenHoldsNoHandle ==
    (call.op = "open" /\ call.ret = "False") => dmx_port = "None"

\* C6 amended: a failed open returns False and leaves dmx_port as it was;
\* test_pattern then returns False without a write attempt; and while no
\* handle is held (no open has succeeded) a failed open leaves none and every
\* send returns False, writes nothing and leaves frame_count as it was.
C6_FailedOpenStaysClosed ==
    [][/\ (call'.op = "open" /\ call'.ret = "False") => dmx_port' = dmx_port
       /\ (tp_pc = "opened" /\ call.ret = "False")
            => (/\ call' = [op |-> "test_pattern", ret |-> "False"]
                /\ tp_tried' = {}
                /\ port_calls' = <<>>
                /\ frame_count' = frame_count)
       /\ (dmx_port = "None" /\ call'.op = "send")
            => (/\ call'.ret = "False"
                /\ port_calls' = <<>>
                /\ frame_count' = frame_count
                /\ dmx_port' = "None")]_vars

\* C6 witness: test_pattern returned False on a controller that holds no
\* handle, and the run tried no write
C6_Witness ==
    /\ call = [op |-> "test_pattern", ret |-> "False"]
    /\ dmx_port = "None"
    /\ tp_tried = {}
    /\ frame_count = 0

\* C7: the count test_pattern reports at the end of a run is the number of
\* frames sent in that run (the counter restarted from 0 with the open).
C7_CounterRestarts ==
    reported # <<>> => reported[1] = tp_sent

\* C8: a send returns True and adds exactly 1 to frame_count iff the port is
\* open and the write returned without an exception; otherwise it returns
\* False and leaves frame_count alone.  So frame_count is the number of sends
\* that returned True, and never decreases.
C8_CountIsExact ==
    [][/\ call'.op = "send"
            => IF /\ dmx_port # "None"
                  /\ port_calls' # <<>>
                  /\ port_calls'[1].op = "write"
                  /\ port_calls'[1].outcome = "ok"
               THEN call'.ret = "True" /\ frame_count' = frame_count + 1
               ELSE call'.ret = "False" /\ frame_count' = frame_count
       /\ frame_count' = true_returns'
       /\ frame_count' >= frame_count]_vars

\* C8 witness: a write failed after an earlier one had succeeded, and the
\* count was kept
C8_Witness ==
    /\ Wrote
    /\ call.ret = "False"
    /\ port_calls[1].outcome = "timeout"
    /\ frame_count = 1 /\ true_returns = 1

\* C9: no test of dmx_test.py ever calls flush or close on its port.
C9_NoFlushNoClose ==
    \A i \in DOMAIN script_calls : script_calls[i] \notin {"flush", "close"}

\* C10: for a list of n integers the frame handed to write has the 513
\* indices 0..512 and bytes in 0..255, byte 0 is 0x00, bytes 1..min(n,512)
\* are the first min(n,512) values in order, the bytes after them are 0, and
\* the caller's list is unchanged.
C10_FrameCarriesValues ==
    (Wrote /\ AllInts(arg))
    => (/\ DOMAIN Written = 0 .. 512
        /\ \A k \in 0 .. 512 : InByteRange(Written[k])
        /\ Written[0] = 0
        /\ \A i \in 1 .. Min(Len(arg.vals), 512) : Written[i] = arg.vals[i]
        /\ \A i \in Min(Len(arg.vals), 512) + 1 .. 512 : Written[i] = 0
        /\ channels = arg)
====
